---- MODULE Spec2Model ----
(***************************************************************************)
(* Model of the romboss header decoders: console A (Super Nintendo,        *)
(* src/platform/snes.rs), console B (Mega Drive, src/platform/megadrive.rs)*)
(* and console C (Nintendo DS, src/platform/nds.rs).                       *)
(*                                                                         *)
(* A decode is one run: Init picks the platform, the build profile and the *)
(* image file, and the actions walk through rom_from_file.                 *)
(*                                                                         *)
(* Bytes are the integers 0..255.  Text is a sequence of character codes:  *)
(* a code below 128 is that ASCII character, a code 256*lead+trail stands  *)
(* for the two-byte character of a Japanese legacy encoding.               *)
(*                                                                         *)
(* Values of the code's u32/u64 size arithmetic are 0 or a power of two;   *)
(* they are kept as [zero, log2] records, because 2^31 and above is not an *)
(* integer TLC can hold.  File lengths stay below 2^31 and are integers.   *)
(***************************************************************************)
EXTENDS Integers, Sequences, FiniteSets, TLC

VARIABLES
    platform,        \* which decoder runs: "snes", "megadrive" or "nds"
    overflow_checks, \* build profile: TRUE = arithmetic overflow panics (debug)
    file,            \* the image: [len, data], data maps positions < len to bytes
    pc,              \* position inside rom_from_file
    offset,          \* snes: leading-offset correction (0 or 0x200)
    has_smc_header,  \* snes: whether the 512-byte copier prefix was detected
    opened,          \* whether File::open has been called
    real_size,       \* snes: size - offset, the payload size given to validation
    buffer,          \* the zero-initialised read buffer after file.read
    header,          \* the parsed RomHeader, or NoHeader
    placement,       \* snes: HeaderType tag of the accepted candidate
    result           \* outcome of the decode

vars == <<platform, overflow_checks, file, pc, offset, has_smc_header, opened,
          real_size, buffer, header, placement, result>>

----------------------------------------------------------------------------
(* Bounds of the model                                                     *)

\* snes images have up to 2^MaxRomExp kilobytes of payload
MaxRomExp == 7

\* text fields vary in their first MaxTextLen bytes, the rest is padding
MaxTextLen == 2

----------------------------------------------------------------------------
(* Generic helpers                                                         *)

Byte == 0..255

NoHeader == [none |-> TRUE]

Pending == [kind |-> "pending"]

RECURSIVE Pow2(_)
Pow2(n) == IF n = 0 THEN 1 ELSE 2 * Pow2(n - 1)

\* value 2^e computed in w-bit unsigned arithmetic with wrapping: 0 once e >= w
WrapPow2(e, w) == [zero |-> e >= w, log2 |-> IF e >= w THEN 0 ELSE e]

\* an integer below 2^31 compared with a [zero, log2] value (a power of two
\* from 2^31 on equals no such integer)
EqNatP2(n, p) ==
    IF p.zero THEN n = 0
    ELSE p.log2 <= 30 /\ n = Pow2(p.log2)

\* the byte of the file at position p; positions the model does not track
\* hold the filler byte 0xFF, which no decoder interprets
FileByte(f, p) == IF p \in DOMAIN f.data THEN f.data[p] ELSE 255

\* file.read(&mut buffer) after a seek to `start`: the bytes the file has are
\* copied, the rest of the zero-initialised buffer stays zero (short read)
ReadInto(f, start, idx) ==
    [i \in idx |-> IF start + i < f.len THEN FileByte(f, start + i) ELSE 0]

\* U+3000 IDEOGRAPHIC SPACE, which both Japanese legacy encodings can encode
IdeographicSpace == 12288

\* Rust's char::is_whitespace (the Unicode White_Space property); the codes
\* that stand for other two-byte legacy characters are all above 0x3000
IsWhitespace(c) ==
    c \in ((9..13) \cup {32, 133, 160, 5760} \cup (8192..8202)
           \cup {8232, 8233, 8239, 8287, IdeographicSpace})

\* str::trim_end
RECURSIVE trim_end(_)
trim_end(s) ==
    IF s = <<>> THEN <<>>
    ELSE IF IsWhitespace(s[Len(s)]) THEN trim_end(SubSeq(s, 1, Len(s) - 1))
    ELSE s

----------------------------------------------------------------------------
(* Console A (snes): header layout and field reader                         *)

HEADER_START_LOROM == 32688     \* 0x7FB0
HEADER_START_HIROM == 65456     \* 0xFFB0
HEADER_SIZE == 48
HEADER_BUFFER_SIZE == (HEADER_START_HIROM - HEADER_START_LOROM) + HEADER_SIZE

\* byte offsets of the RomHeader fields inside the 48-byte header
OffFixedValue == 6
OffCartridgeType == 15
OffName == 16
OffMapMode == 37
OffRomSize == 39
OffSramSize == 40
OffDestinationCode == 41

FixedValueLen == 7
NameLen == 21

\* the buffer indices the two candidate headers occupy
SnesBufferIdx ==
    (0..(HEADER_SIZE - 1)) \cup
    ((HEADER_START_HIROM - HEADER_START_LOROM)..(HEADER_BUFFER_SIZE - 1))

\* EUCJPEncoding.decode(bytes, DecoderTrap::Ignore): ASCII bytes decode to
\* themselves, a lead byte 0xA1..0xFE with a trail byte 0xA1..0xFE is one
\* two-byte character, 0x8E with a trail 0xA1..0xDF is a half-width kana,
\* 0x8F takes two trail bytes; every other byte is an error that the Ignore
\* trap skips.  The decode itself never fails.
RECURSIVE EucJpDecode(_)
EucJpDecode(b) ==
    IF b = <<>> THEN <<>>
    ELSE IF b[1] < 128 THEN <<b[1]>> \o EucJpDecode(Tail(b))
    ELSE IF b[1] = 142 /\ Len(b) >= 2 /\ b[2] \in 161..223
         THEN <<256 * b[1] + b[2]>> \o EucJpDecode(SubSeq(b, 3, Len(b)))
    ELSE IF b[1] = 143 /\ Len(b) >= 3 /\ b[2] \in 161..254 /\ b[3] \in 161..254
         THEN <<65536 * b[1] + 256 * b[2] + b[3]>> \o EucJpDecode(SubSeq(b, 4, Len(b)))
    ELSE IF b[1] \in 161..254 /\ Len(b) >= 2 /\ b[2] \in 161..254
         THEN <<IF b[1] = 161 /\ b[2] = 161 THEN IdeographicSpace ELSE 256 * b[1] + b[2]>>
              \o EucJpDecode(SubSeq(b, 3, Len(b)))
    ELSE EucJpDecode(Tail(b))

\* snes bytes_to_stripped_string: always Ok
snes_bytes_to_stripped_string(bytes) ==
    [ok |-> TRUE, text |-> trim_end(EucJpDecode(bytes))]

\* read_header_at: RomHeader::read at `off` of the buffer.  The buffer always
\* has HEADER_BUFFER_SIZE bytes, so the read fails only past its end.
read_header_at(buf, off) ==
    IF off + HEADER_SIZE > HEADER_BUFFER_SIZE
    THEN [ok |-> FALSE]
    ELSE LET name == snes_bytes_to_stripped_string(
                        [i \in 1..NameLen |-> buf[off + OffName + i - 1]])
         IN [ok |-> name.ok,
             fixed_value |-> [i \in 1..FixedValueLen |-> buf[off + OffFixedValue + i - 1]],
             cartridge_type |-> buf[off + OffCartridgeType],
             name |-> name.text,
             map_mode |-> buf[off + OffMapMode],
             rom_size |-> buf[off + OffRomSize],
             sram_size |-> buf[off + OffSramSize],
             destination_code |-> buf[off + OffDestinationCode]]

FIXED_VALUE_1 == [i \in 1..FixedValueLen |-> 0]

\* 2u64.pow(rom_size) * 1024: whether the u64 arithmetic overflows, and the
\* wrapped value it has when overflow is not checked
CalculatedSizeOverflows(rom_size) == rom_size + 10 >= 64

calculated_size(rom_size) == WrapPow2(rom_size + 10, 64)

\* header_checks_out without the size comparison: the zero run alone decides
header_checks_out_SentinelOnly(rom, rsize, checks) ==
    IF rom.fixed_value # FIXED_VALUE_1 THEN "false" ELSE "true"

\* header_checks_out: "true", "false", or "panic" when the size arithmetic
\* overflows in a build that checks overflow
header_checks_out(rom, rsize, checks) ==
    IF rom.fixed_value # FIXED_VALUE_1 THEN "false"
    ELSE IF checks /\ CalculatedSizeOverflows(rom.rom_size) THEN "panic"
    ELSE IF EqNatP2(rsize, calculated_size(rom.rom_size)) THEN "true"
    ELSE "false"

\* the length check with the two accepted remainders exchanged
length_check_Exchanged(len) ==
    IF len % 1024 = 512 THEN [ok |-> TRUE, offset |-> 0, has_smc_header |-> FALSE]
    ELSE IF len % 1024 = 0 THEN [ok |-> TRUE, offset |-> 512, has_smc_header |-> TRUE]
    ELSE [ok |-> FALSE, offset |-> 0, has_smc_header |-> FALSE]

\* the length check taking every remainder but 0 for the copier prefix
length_check_AnyPrefix(len) ==
    IF len % 1024 = 0 THEN [ok |-> TRUE, offset |-> 0, has_smc_header |-> FALSE]
    ELSE [ok |-> TRUE, offset |-> 512, has_smc_header |-> TRUE]

\* the match on metadata.len() % 1024 in rom_from_file: the offset and the
\* has_smc_header flag, or not ok where the code panics
length_check(len) ==
    IF len % 1024 = 0 THEN [ok |-> TRUE, offset |-> 0, has_smc_header |-> FALSE]
    ELSE IF len % 1024 = 512 THEN [ok |-> TRUE, offset |-> 512, has_smc_header |-> TRUE]
    ELSE [ok |-> FALSE, offset |-> 0, has_smc_header |-> FALSE]

\* find_rom_header after the read: the ordered trial of the two candidates
find_rom_header(buf, rsize, checks) ==
    LET lo == read_header_at(buf, HEADER_START_LOROM - HEADER_START_LOROM)
        hi == read_header_at(buf, HEADER_START_HIROM - HEADER_START_LOROM)
        lo_ok == header_checks_out(lo, rsize, checks)
        hi_ok == header_checks_out(hi, rsize, checks)
    IN IF ~lo.ok THEN [kind |-> "error", error |-> "read"]
       ELSE IF lo_ok = "panic" THEN [kind |-> "panic", message |-> "overflow"]
       ELSE IF lo_ok = "true" THEN [kind |-> "ok", header |-> lo, placement |-> "LoRom"]
       ELSE IF ~hi.ok THEN [kind |-> "error", error |-> "read"]
       ELSE IF hi_ok = "panic" THEN [kind |-> "panic", message |-> "overflow"]
       ELSE IF hi_ok = "true" THEN [kind |-> "ok", header |-> hi, placement |-> "HiRom"]
       ELSE [kind |-> "error", error |-> "no_valid_header"]

----------------------------------------------------------------------------
(* Console A: enumeration tables and sizes                                  *)

MAP_MODES ==
    (32 :> "2.68MHz LoROM") @@ (33 :> "2.68MHz HiROM") @@ (35 :> "SA-1") @@
    (37 :> "2.68MHz ExHiROM") @@ (48 :> "3.58MHz LoROM") @@
    (49 :> "3.58MHz HiROM") @@ (53 :> "3.58MHz ExHiROM")

CARTRIDGE_TYPES ==
    (0 :> "ROM only") @@ (1 :> "ROM and RAM") @@ (2 :> "ROM, RAM and battery") @@
    (51 :> "ROM and SA-1") @@ (52 :> "ROM, SA-1 and RAM") @@
    (53 :> "ROM, SA-1, RAM and battery")

DESTINATION_CODES ==
    (0 :> "Japan") @@ (1 :> "North America") @@ (2 :> "Europe") @@
    (3 :> "Nordic") @@ (4 :> "Finland") @@ (5 :> "Denmark") @@ (6 :> "France") @@
    (7 :> "Netherlands") @@ (8 :> "Spain") @@ (9 :> "Germany") @@ (10 :> "Italy") @@
    (11 :> "China") @@ (12 :> "Indonesia") @@ (13 :> "Korea") @@ (15 :> "Canada") @@
    (16 :> "Brazil") @@ (17 :> "Australia")

HexDigitChars ==
    <<"0", "1", "2", "3", "4", "5", "6", "7", "8", "9", "a", "b", "c", "d", "e", "f">>

\* the digits of n in base 16, lower case, without leading zeros
RECURSIVE LowerHex(_)
LowerHex(n) ==
    IF n < 16 THEN <<HexDigitChars[n + 1]>>
    ELSE LowerHex(n \div 16) \o <<HexDigitChars[(n % 16) + 1]>>

\* format!("{:#x}", code), as a sequence of pieces
FormatHex(code) == <<"0x">> \o LowerHex(code)

\* lookup_description whose fallback label leaves the code out
lookup_description_NoCode(code, map) ==
    IF code \in DOMAIN map THEN <<map[code]>>
    ELSE <<"Unknown ">>

\* lookup_description: a label is a sequence of text pieces
lookup_description(code, map) ==
    IF code \in DOMAIN map THEN <<map[code]>>
    ELSE <<"Unknown ">> \o FormatHex(code)

map_mode_description(h) == lookup_description(h.map_mode, MAP_MODES)

cartridge_type_description(h) == lookup_description(h.cartridge_type, CARTRIDGE_TYPES)

destination_code_description(h) == lookup_description(h.destination_code, DESTINATION_CODES)

\* a [zero, log2] value times 2^k in 32-bit unsigned arithmetic with wrapping
MulPow2U32(p, k) == IF p.zero THEN p ELSE WrapPow2(p.log2 + k, 32)

\* kilobytes_to_storage on the value 2u32.pow(exp)
kilobytes_to_storage(kilobyte_len) ==
    [bytes |-> MulPow2U32(kilobyte_len, 10),
     kilobits |-> MulPow2U32(kilobyte_len, 3),
     kilobytes |-> kilobyte_len]

\* whether 2u32.pow(exp), or the * 1024 and * 8 after it, overflows u32
StorageOverflows(exp) == exp + 10 >= 32

\* RomHeader::rom_size and RomHeader::sram_size
rom_size(h) == kilobytes_to_storage(WrapPow2(h.rom_size, 32))

sram_size(h) == kilobytes_to_storage(WrapPow2(h.sram_size, 32))

\* rom_from_header: the Rom, or a panic when a size overflows and the build
\* checks overflow
snes_rom_from_header(h, smc, checks) ==
    IF checks /\ (StorageOverflows(h.rom_size) \/ StorageOverflows(h.sram_size))
    THEN [kind |-> "panic", message |-> "overflow"]
    ELSE [kind |-> "ok",
          rom |-> [map_mode |-> map_mode_description(h),
                   cartridge_type |-> cartridge_type_description(h),
                   target_market |-> destination_code_description(h),
                   title |-> h.name,
                   has_smc_header |-> smc,
                   rom_size |-> rom_size(h),
                   sram_size |-> sram_size(h)]]

----------------------------------------------------------------------------
(* Text literals: the character codes of the ASCII characters the code names *)

UpperChars ==
    <<"A", "B", "C", "D", "E", "F", "G", "H", "I", "J", "K", "L", "M",
      "N", "O", "P", "Q", "R", "S", "T", "U", "V", "W", "X", "Y", "Z">>

DigitChars == <<"0", "1", "2", "3", "4", "5", "6", "7", "8", "9">>

LowerChars == <<"a", "b", "c", "d", "e", "f">>

CharCode(ch) ==
    IF ch = " " THEN 32
    ELSE IF ch = "+" THEN 43
    ELSE IF \E i \in 1..Len(DigitChars) : DigitChars[i] = ch
         THEN 47 + (CHOOSE i \in 1..Len(DigitChars) : DigitChars[i] = ch)
    ELSE IF \E i \in 1..Len(UpperChars) : UpperChars[i] = ch
         THEN 64 + (CHOOSE i \in 1..Len(UpperChars) : UpperChars[i] = ch)
    ELSE 96 + (CHOOSE i \in 1..Len(LowerChars) : LowerChars[i] = ch)

\* the text of a literal given character by character
Str(chars) == [i \in 1..Len(chars) |-> CharCode(chars[i])]

----------------------------------------------------------------------------
(* Console B (megadrive): field reader                                      *)

MdHeaderStart == 256            \* 0x100
MdBufferSize == 255
MdHeaderSize == 243

\* byte offsets and lengths of the RomHeader fields the decoder uses
MdOffSystemType == 0
MdOffReleaseYear == 24
MdOffReleaseMonth == 29
MdOffTitleDomestic == 32
MdOffTitleOverseas == 80
MdOffSoftwareType == 128
MdOffSerialNumber == 131
MdOffRevision == 140
MdOffSupportedDevices == 144
MdOffSupportedRegions == 240

MdTitleLen == 48

\* Windows31JEncoding.decode(bytes, DecoderTrap::Ignore): bytes up to 0x80
\* decode to themselves, 0xA1..0xDF to a half-width kana, a lead byte
\* 0x81..0x9F or 0xE0..0xFC with a trail byte 0x40..0x7E or 0x80..0xFC to one
\* two-byte character; every other byte is an error that the Ignore trap skips.
RECURSIVE Windows31JDecode(_)
Windows31JDecode(b) ==
    IF b = <<>> THEN <<>>
    ELSE IF b[1] <= 128 THEN <<b[1]>> \o Windows31JDecode(Tail(b))
    ELSE IF b[1] \in 161..223 THEN <<65377 + (b[1] - 161)>> \o Windows31JDecode(Tail(b))
    ELSE IF b[1] \in ((129..159) \cup (224..252)) /\ Len(b) >= 2
            /\ b[2] \in ((64..126) \cup (128..252))
         THEN <<IF b[1] = 129 /\ b[2] = 64 THEN IdeographicSpace ELSE 256 * b[1] + b[2]>>
              \o Windows31JDecode(SubSeq(b, 3, Len(b)))
    ELSE Windows31JDecode(Tail(b))

\* Regex \s{2,} replace_all with " ": every run of two or more whitespace
\* characters becomes one space, a single whitespace character stays
RECURSIVE WhitespaceRun(_)
WhitespaceRun(s) ==
    IF s # <<>> /\ IsWhitespace(s[1]) THEN 1 + WhitespaceRun(Tail(s)) ELSE 0

RECURSIVE Squish(_)
Squish(s) ==
    IF s = <<>> THEN <<>>
    ELSE IF WhitespaceRun(s) >= 2
         THEN <<32>> \o Squish(SubSeq(s, WhitespaceRun(s) + 1, Len(s)))
    ELSE <<s[1]>> \o Squish(Tail(s))

\* megadrive bytes_to_stripped_string: always Ok
md_bytes_to_stripped_string(bytes) ==
    [ok |-> TRUE, text |-> Squish(trim_end(Windows31JDecode(bytes)))]

IsCont(b) == b \in 128..191

\* String::from_utf8: the characters of a well-formed UTF-8 byte sequence,
\* an error for anything else
RECURSIVE from_utf8(_)
from_utf8(b) ==
    IF b = <<>> THEN [ok |-> TRUE, text |-> <<>>]
    ELSE
      LET n == IF b[1] < 128 THEN 1
               ELSE IF b[1] \in 194..223 /\ Len(b) >= 2 /\ IsCont(b[2]) THEN 2
               ELSE IF b[1] \in 224..239 /\ Len(b) >= 3 /\ IsCont(b[2]) /\ IsCont(b[3])
                       /\ (b[1] = 224 => b[2] >= 160) /\ (b[1] = 237 => b[2] <= 159) THEN 3
               ELSE IF b[1] \in 240..244 /\ Len(b) >= 4 /\ IsCont(b[2]) /\ IsCont(b[3])
                       /\ IsCont(b[4])
                       /\ (b[1] = 240 => b[2] >= 144) /\ (b[1] = 244 => b[2] <= 143) THEN 4
               ELSE 0
          c == IF n = 1 THEN b[1]
               ELSE IF n = 2 THEN (b[1] - 192) * 64 + (b[2] - 128)
               ELSE IF n = 3 THEN (b[1] - 224) * 4096 + (b[2] - 128) * 64 + (b[3] - 128)
               ELSE (b[1] - 240) * 262144 + (b[2] - 128) * 4096 + (b[3] - 128) * 64
                    + (b[4] - 128)
          rest == from_utf8(SubSeq(b, n + 1, Len(b)))
      IN IF n = 0 THEN [ok |-> FALSE, text |-> <<>>]
         ELSE IF ~rest.ok THEN rest
         ELSE [ok |-> TRUE, text |-> <<c>> \o rest.text]

Slice(buf, off, n) == [i \in 1..n |-> buf[off + i - 1]]

\* RomHeader::read on the 255-byte buffer: every text field goes through
\* bytes_to_stripped_string, the region field through String::from_utf8;
\* a field whose conversion fails fails the read
md_read_header(buf) ==
    IF MdHeaderSize > MdBufferSize THEN [ok |-> FALSE]
    ELSE
      LET system_type == md_bytes_to_stripped_string(Slice(buf, MdOffSystemType, 16))
          release_year == md_bytes_to_stripped_string(Slice(buf, MdOffReleaseYear, 4))
          release_month == md_bytes_to_stripped_string(Slice(buf, MdOffReleaseMonth, 3))
          domestic == md_bytes_to_stripped_string(Slice(buf, MdOffTitleDomestic, MdTitleLen))
          overseas == md_bytes_to_stripped_string(Slice(buf, MdOffTitleOverseas, MdTitleLen))
          software_type == md_bytes_to_stripped_string(Slice(buf, MdOffSoftwareType, 2))
          serial_number == md_bytes_to_stripped_string(Slice(buf, MdOffSerialNumber, 8))
          revision == md_bytes_to_stripped_string(Slice(buf, MdOffRevision, 2))
          supported_devices ==
              md_bytes_to_stripped_string(Slice(buf, MdOffSupportedDevices, 16))
          supported_regions == from_utf8(Slice(buf, MdOffSupportedRegions, 3))
      IN [ok |-> system_type.ok /\ release_year.ok /\ release_month.ok /\ domestic.ok
                 /\ overseas.ok /\ software_type.ok /\ serial_number.ok /\ revision.ok
                 /\ supported_devices.ok /\ supported_regions.ok,
          system_type |-> system_type.text,
          release_year |-> release_year.text,
          release_month |-> release_month.text,
          game_title_domestic |-> domestic.text,
          game_title_overseas |-> overseas.text,
          software_type |-> software_type.text,
          serial_number |-> serial_number.text,
          revision |-> revision.text,
          supported_devices |-> supported_devices.text,
          supported_regions |-> supported_regions.text]

----------------------------------------------------------------------------
(* Console B: accessors of the parsed header                                *)

DEVICES ==
    (CharCode("J") :> "3-button controller") @@ (CharCode("6") :> "6-button controller") @@
    (CharCode("0") :> "Master System controller") @@ (CharCode("A") :> "Analog joystick") @@
    (CharCode("4") :> "Multitap") @@ (CharCode("G") :> "Lightgun") @@
    (CharCode("L") :> "Activator") @@ (CharCode("M") :> "Mouse") @@
    (CharCode("B") :> "Trackball") @@ (CharCode("T") :> "Tablet") @@
    (CharCode("V") :> "Paddle") @@ (CharCode("K") :> "Keyboard") @@
    (CharCode("R") :> "RS-232 (Serial)") @@ (CharCode("P") :> "Printer") @@
    (CharCode("C") :> "CD-ROM (Sega CD)") @@ (CharCode("F") :> "Floppy drive") @@
    (CharCode("D") :> "Download")

\* RomHeader::supported_devices: one description per character that has an
\* entry, in field order; the other characters are skipped
RECURSIVE md_supported_devices(_)
md_supported_devices(codes) ==
    IF codes = <<>> THEN <<>>
    ELSE (IF codes[1] \in DOMAIN DEVICES THEN <<DEVICES[codes[1]]>> ELSE <<>>)
         \o md_supported_devices(Tail(codes))

HEX_CHARS ==
    Str(<<"0", "1", "2", "3", "4", "5", "6", "7", "8", "9", "A", "B", "C", "D", "E", "F">>)

Contains(codes, c) == \E i \in 1..Len(codes) : codes[i] = c

\* old_region_code: the letters J, U, E anywhere in the field
old_region_code(codes) ==
    (IF Contains(codes, CharCode("J")) THEN <<"Japan">> ELSE <<>>) \o
    (IF Contains(codes, CharCode("U")) THEN <<"Americas">> ELSE <<>>) \o
    (IF Contains(codes, CharCode("E")) THEN <<"Europe">> ELSE <<>>)

\* bit test code & mask != 0 for a mask 2^k
BitSet(code, mask) == (code \div mask) % 2 = 1

\* new_region_code reading the Americas from bit 1
new_region_code_Bit1(code) ==
    (IF BitSet(code, 1) THEN <<"Japan">> ELSE <<>>) \o
    (IF BitSet(code, 2) THEN <<"Americas">> ELSE <<>>) \o
    (IF BitSet(code, 8) THEN <<"Europe">> ELSE <<>>)

\* new_region_code: bitmask 1 = Japan, 4 = Americas, 8 = Europe
new_region_code(code) ==
    (IF BitSet(code, 1) THEN <<"Japan">> ELSE <<>>) \o
    (IF BitSet(code, 4) THEN <<"Americas">> ELSE <<>>) \o
    (IF BitSet(code, 8) THEN <<"Europe">> ELSE <<>>)

\* the special-case literal with the letter in the middle
EuropeMarker_LetterInMiddle == Str(<<" ", "E", " ">>)

\* the literal the special case of supported_regions compares with
EuropeMarker == Str(<<"E", " ", " ">>)

\* RomHeader::supported_regions, with the branch that produced the list
supported_regions(field) ==
    IF field = EuropeMarker THEN [branch |-> "special", regions |-> <<"Europe">>]
    ELSE IF \E pos \in 1..Len(HEX_CHARS) : HEX_CHARS[pos] = field[1]
         THEN [branch |-> "hex",
               regions |-> new_region_code(
                   (CHOOSE pos \in 1..Len(HEX_CHARS) : HEX_CHARS[pos] = field[1]) - 1)]
    ELSE [branch |-> "legacy", regions |-> old_region_code(field)]

\* RomHeader::software_type
software_type(text) ==
    IF text = Str(<<"G", "M">>) THEN [known |-> TRUE, text |-> "Game", raw |-> <<>>]
    ELSE IF text = Str(<<"A", "I">>) THEN [known |-> TRUE, text |-> "Aid", raw |-> <<>>]
    ELSE IF text = Str(<<"O", "S">>)
         THEN [known |-> TRUE, text |-> "Boot ROM (TMSS)", raw |-> <<>>]
    ELSE IF text = Str(<<"B", "R">>)
         THEN [known |-> TRUE, text |-> "Boot ROM (Sega CD)", raw |-> <<>>]
    ELSE [known |-> FALSE, text |-> "Unknown", raw |-> text]

IsDigit(c) == c \in 48..57

RECURSIVE DecimalValue(_)
DecimalValue(s) ==
    IF s = <<>> THEN 0 ELSE 10 * DecimalValue(SubSeq(s, 1, Len(s) - 1)) + (s[Len(s)] - 48)

\* str::parse::<u16>: an optional '+', then one or more decimal digits whose
\* value fits 16 bits (the field has at most 4 characters)
parse_u16(s) ==
    LET digits == IF s # <<>> /\ s[1] = CharCode("+") THEN Tail(s) ELSE s
    IN IF digits # <<>> /\ Len(digits) <= 4 /\ \A i \in 1..Len(digits) : IsDigit(digits[i])
       THEN [ok |-> TRUE, value |-> DecimalValue(digits)]
       ELSE [ok |-> FALSE, value |-> 0]

\* RomHeader::release_year: parse().unwrap()
release_year(text) == parse_u16(text)

MONTHS ==
    <<Str(<<"J", "A", "N">>), Str(<<"F", "E", "B">>), Str(<<"M", "A", "R">>),
      Str(<<"A", "P", "R">>), Str(<<"M", "A", "Y">>), Str(<<"J", "U", "N">>),
      Str(<<"J", "U", "L">>), Str(<<"A", "U", "G">>), Str(<<"S", "E", "P">>),
      Str(<<"O", "C", "T">>), Str(<<"N", "O", "V">>), Str(<<"D", "E", "C">>)>>

\* RomHeader::release_month: the zero-based position in MONTHS, 0 without a match
release_month(text) ==
    IF \E pos \in 1..Len(MONTHS) : MONTHS[pos] = text
    THEN (CHOOSE pos \in 1..Len(MONTHS) : MONTHS[pos] = text) - 1
    ELSE 0

\* megadrive rom_from_header: release_year() is evaluated first and panics on
\* a year that does not parse
md_rom_from_header(h) ==
    IF ~release_year(h.release_year).ok
    THEN [kind |-> "panic", message |-> "unwrap"]
    ELSE [kind |-> "ok",
          rom |-> [release_date |-> [year |-> release_year(h.release_year).value,
                                     month |-> release_month(h.release_month)],
                   software_title |-> [domestic |-> h.game_title_domestic,
                                       overseas |-> h.game_title_overseas],
                   revision |-> h.revision,
                   serial_number |-> h.serial_number,
                   software_type |-> software_type(h.software_type),
                   supported_devices |-> md_supported_devices(h.supported_devices),
                   supported_regions |-> supported_regions(h.supported_regions).regions,
                   system_type |-> h.system_type]]

----------------------------------------------------------------------------
(* Console C (nds): field reader and accessors                              *)

NdsBufferSize == 512
NdsHeaderSize == 30

NdsOffGameTitle == 0
NdsOffGameCode == 12
NdsOffMakerCode == 16
NdsOffUnitCode == 18

\* str::trim_matches(char::from(0)): zero characters off both ends
RECURSIVE trim_matches_nul(_)
trim_matches_nul(s) ==
    IF s = <<>> THEN <<>>
    ELSE IF s[1] = 0 THEN trim_matches_nul(Tail(s))
    ELSE IF s[Len(s)] = 0 THEN trim_matches_nul(SubSeq(s, 1, Len(s) - 1))
    ELSE s

\* nds bytes_to_stripped_string: fails on bytes that are not UTF-8
nds_bytes_to_stripped_string(bytes) ==
    LET s == from_utf8(bytes)
    IN IF ~s.ok THEN [ok |-> FALSE, text |-> <<>>]
       ELSE [ok |-> TRUE, text |-> trim_matches_nul(trim_end(s.text))]

nds_read_header(buf) ==
    IF NdsHeaderSize > NdsBufferSize THEN [ok |-> FALSE]
    ELSE
      LET game_title == nds_bytes_to_stripped_string(Slice(buf, NdsOffGameTitle, 12))
          game_code == nds_bytes_to_stripped_string(Slice(buf, NdsOffGameCode, 4))
          maker_code == nds_bytes_to_stripped_string(Slice(buf, NdsOffMakerCode, 2))
      IN [ok |-> game_title.ok /\ game_code.ok /\ maker_code.ok,
          game_title |-> game_title.text,
          game_code |-> game_code.text,
          maker_code |-> maker_code.text,
          unit_code |-> buf[NdsOffUnitCode]]

\* supported_devices with the two special unit codes exchanged
nds_supported_devices_Swapped(unit_code) ==
    IF unit_code = 2 THEN <<"DSi">>
    ELSE IF unit_code = 3 THEN <<"DS", "DSi">>
    ELSE <<"DS">>

\* RomHeader::supported_devices
nds_supported_devices(unit_code) ==
    IF unit_code = 3 THEN <<"DSi">>
    ELSE IF unit_code = 2 THEN <<"DS", "DSi">>
    ELSE <<"DS">>

nds_rom_from_header(h) ==
    [kind |-> "ok",
     rom |-> [software_title |-> h.game_title,
              game_code |-> h.game_code,
              maker_code |-> h.maker_code,
              supported_devices |-> nds_supported_devices(h.unit_code)]]

----------------------------------------------------------------------------
(* The image files the model decodes                                        *)

\* a file of `len` bytes whose bytes from `start` on are `bytes` (a function
\* on 0..n-1), cut at the end of the file
MkFile(len, start, bytes) ==
    [len |-> len,
     data |-> [p \in {q \in {start + i : i \in DOMAIN bytes} : q < len} |-> bytes[p - start]]]

Pad(prefix, n, pad) == [i \in 1..n |-> IF i <= Len(prefix) THEN prefix[i] ELSE pad]

\* bytes that text fields are filled with: space, 'A', zero, 0xA1 (a lead and
\* trail byte of EUC-JP, a kana of Shift_JIS, invalid UTF-8), 0xC3 0xA9 (one
\* UTF-8 character), 0xFF (invalid in every encoding)
TextBytes == {32, 65, 0, 161, 195, 169, 255}

RECURSIVE SeqsOfLen(_, _)
SeqsOfLen(S, n) ==
    IF n = 0 THEN {<<>>}
    ELSE {<<x>> \o t : x \in S, t \in SeqsOfLen(S, n - 1)}

TextPrefixes == SeqsOfLen(TextBytes, MaxTextLen)

\* --- console A ---

\* the copier prefix of a file of this length
SmcPrefix(len) == IF len % 1024 = 512 THEN 512 ELSE 0

SnesHeaderBytes(c) ==
    [k \in 0..(HEADER_SIZE - 1) |->
        IF k \in OffFixedValue..(OffFixedValue + FixedValueLen - 1)
            THEN c.fixed_value[k - OffFixedValue + 1]
        ELSE IF k = OffCartridgeType THEN c.cartridge_type
        ELSE IF k \in OffName..(OffName + NameLen - 1) THEN c.name[k - OffName + 1]
        ELSE IF k = OffMapMode THEN c.map_mode
        ELSE IF k = OffRomSize THEN c.rom_size
        ELSE IF k = OffSramSize THEN c.sram_size
        ELSE IF k = OffDestinationCode THEN c.destination_code
        ELSE 255]

SnesFile(len, lo, hi) ==
    LET a == MkFile(len, SmcPrefix(len) + HEADER_START_LOROM, SnesHeaderBytes(lo))
        b == MkFile(len, SmcPrefix(len) + HEADER_START_HIROM, SnesHeaderBytes(hi))
    IN [len |-> len, data |-> a.data @@ b.data]

SnesBase ==
    [fixed_value |-> FIXED_VALUE_1, cartridge_type |-> 2,
     name |-> Pad(Str(<<"A", "B">>), NameLen, 32),
     map_mode |-> 32, rom_size |-> 5, sram_size |-> 3, destination_code |-> 1]

\* exponent bytes at and around the limits of the u64 size arithmetic of
\* header_checks_out
EdgeExponents == {53, 54, 63, 64, 255}

SnesExponents == (0..(MaxRomExp + 1)) \cup EdgeExponents

SnesFixedValues == {FIXED_VALUE_1, [FIXED_VALUE_1 EXCEPT ![4] = 1]}

SnesCandidates ==
    {[SnesBase EXCEPT !.fixed_value = fv, !.rom_size = e] :
        fv \in SnesFixedValues, e \in SnesExponents}

\* lengths: every power-of-two payload up to 2^MaxRomExp kilobytes with and
\* without the copier prefix, the empty file, a bare prefix, a payload that is
\* no power of two, and lengths with another remainder modulo 1024
SnesLens ==
    {Pow2(e) * 1024 + p : e \in 0..MaxRomExp, p \in {0, 512}}
    \cup {0, 512, 3 * 32768, 100, 1000, 32768 + 511}

SnesLocatorFiles ==
    {SnesFile(len, lo, hi) : len \in SnesLens, lo \in SnesCandidates, hi \in SnesCandidates}

SnesEnumFiles ==
    {SnesFile(32768, [SnesBase EXCEPT !.map_mode = c], SnesBase) : c \in Byte}
    \cup {SnesFile(32768, [SnesBase EXCEPT !.cartridge_type = c], SnesBase) : c \in Byte}
    \cup {SnesFile(32768, [SnesBase EXCEPT !.destination_code = c], SnesBase) : c \in Byte}
    \cup {SnesFile(32768, [SnesBase EXCEPT !.sram_size = c], SnesBase) : c \in Byte}

SnesTitleFiles ==
    {SnesFile(32768, [SnesBase EXCEPT !.name = Pad(t, NameLen, 32)], SnesBase) :
        t \in TextPrefixes}

SnesFiles == SnesLocatorFiles \cup SnesEnumFiles \cup SnesTitleFiles

\* --- console B ---

MdHeaderBytes(h) ==
    [k \in 0..(MdHeaderSize - 1) |->
        IF k \in MdOffSystemType..(MdOffSystemType + 15)
            THEN h.system_type[k - MdOffSystemType + 1]
        ELSE IF k \in MdOffReleaseYear..(MdOffReleaseYear + 3)
            THEN h.release_year[k - MdOffReleaseYear + 1]
        ELSE IF k \in MdOffReleaseMonth..(MdOffReleaseMonth + 2)
            THEN h.release_month[k - MdOffReleaseMonth + 1]
        ELSE IF k \in MdOffTitleDomestic..(MdOffTitleDomestic + MdTitleLen - 1)
            THEN h.game_title_domestic[k - MdOffTitleDomestic + 1]
        ELSE IF k \in MdOffTitleOverseas..(MdOffTitleOverseas + MdTitleLen - 1)
            THEN h.game_title_overseas[k - MdOffTitleOverseas + 1]
        ELSE IF k \in MdOffSoftwareType..(MdOffSoftwareType + 1)
            THEN h.software_type[k - MdOffSoftwareType + 1]
        ELSE IF k \in MdOffSerialNumber..(MdOffSerialNumber + 7)
            THEN h.serial_number[k - MdOffSerialNumber + 1]
        ELSE IF k \in MdOffRevision..(MdOffRevision + 1)
            THEN h.revision[k - MdOffRevision + 1]
        ELSE IF k \in MdOffSupportedDevices..(MdOffSupportedDevices + 15)
            THEN h.supported_devices[k - MdOffSupportedDevices + 1]
        ELSE IF k \in MdOffSupportedRegions..(MdOffSupportedRegions + 2)
            THEN h.supported_regions[k - MdOffSupportedRegions + 1]
        ELSE 32]

MdFile(len, h) == MkFile(len, MdHeaderStart, MdHeaderBytes(h))

MdBase ==
    [system_type |-> Pad(Str(<<"S", "E", "G", "A">>), 16, 32),
     release_year |-> Str(<<"1", "9", "9", "4">>),
     release_month |-> Str(<<"M", "A", "R">>),
     game_title_domestic |-> Pad(Str(<<"A", " ", " ", "B">>), MdTitleLen, 32),
     game_title_overseas |-> Pad(Str(<<"A", "B">>), MdTitleLen, 32),
     software_type |-> Str(<<"G", "M">>),
     serial_number |-> Pad(Str(<<"T", "0", "1">>), 8, 32),
     revision |-> Str(<<"0", "0">>),
     supported_devices |-> Pad(Str(<<"J", "6", "X">>), 16, 32),
     supported_regions |-> Str(<<"J", "U", "E">>)]

\* region fields: the first byte is any upper-case or lower-case hexadecimal
\* digit, a legacy letter, a space, another letter or a byte that is not UTF-8
MdRegionFirst ==
    {HEX_CHARS[i] : i \in 1..Len(HEX_CHARS)}
    \cup {CharCode(LowerChars[i]) : i \in 1..Len(LowerChars)}
    \cup {CharCode("J"), CharCode("U"), CharCode("G"), 32, 0, 195, 255}

MdRegionRest ==
    {CharCode("J"), CharCode("U"), CharCode("E"), CharCode("0"), 32, 169, 255}

MdRegionFields == {<<a, b, c>> : a \in MdRegionFirst, b \in MdRegionRest, c \in MdRegionRest}

MdYears ==
    {Str(<<"1", "9", "9", "4">>), Str(<<"1", "9", "9", " ">>), Str(<<" ", "1", "9", "9">>),
     Str(<<"+", "1", "9", "9">>), Str(<<" ", " ", " ", " ">>), Str(<<"1", "9", "X", "4">>),
     <<0, 0, 0, 0>>}

MdMonths ==
    {MONTHS[i] : i \in 1..Len(MONTHS)}
    \cup {Str(<<"f", "e", "b">>), Str(<<"J", "A", " ">>), Str(<<" ", " ", " ">>),
          Str(<<"X", "X", "X">>), <<0, 0, 0>>}

MdSoftwareTypes ==
    {Str(<<"G", "M">>), Str(<<"A", "I">>), Str(<<"O", "S">>), Str(<<"B", "R">>),
     Str(<<"G", " ">>), Str(<<"X", "Y">>), Str(<<" ", " ">>), <<0, 0>>, <<255, 65>>}

\* lengths: files that end before, inside and right at the end of the header
MdShortLens ==
    {0, 100, MdHeaderStart, MdHeaderStart + MdOffReleaseMonth,
     MdHeaderStart + MdOffSupportedRegions, MdHeaderStart + MdHeaderSize - 1,
     MdHeaderStart + MdHeaderSize}

MdFullLen == 4 * MdHeaderStart

MdFiles ==
    {MdFile(MdFullLen, [MdBase EXCEPT !.supported_regions = r]) : r \in MdRegionFields}
    \cup {MdFile(MdFullLen, [MdBase EXCEPT !.release_year = y, !.release_month = m,
                                           !.software_type = t]) :
            y \in MdYears, m \in MdMonths, t \in MdSoftwareTypes}
    \cup {MdFile(MdFullLen, [MdBase EXCEPT !.game_title_domestic = Pad(t, MdTitleLen, 32),
                                           !.supported_devices = Pad(t, 16, 32)]) :
            t \in TextPrefixes}
    \cup {MdFile(len, [MdBase EXCEPT !.release_year = y]) :
            len \in MdShortLens, y \in MdYears}

\* --- console C ---

NdsHeaderBytes(h) ==
    [k \in 0..(NdsHeaderSize - 1) |->
        IF k \in NdsOffGameTitle..(NdsOffGameTitle + 11) THEN h.game_title[k - NdsOffGameTitle + 1]
        ELSE IF k \in NdsOffGameCode..(NdsOffGameCode + 3) THEN h.game_code[k - NdsOffGameCode + 1]
        ELSE IF k \in NdsOffMakerCode..(NdsOffMakerCode + 1)
            THEN h.maker_code[k - NdsOffMakerCode + 1]
        ELSE IF k = NdsOffUnitCode THEN h.unit_code
        ELSE 0]

NdsFile(len, h) == MkFile(len, 0, NdsHeaderBytes(h))

NdsBase ==
    [game_title |-> Pad(Str(<<"A", "B", "C">>), 12, 0),
     game_code |-> Str(<<"A", "B", "C", "E">>),
     maker_code |-> Str(<<"0", "1">>),
     unit_code |-> 0]

NdsShortLens == {0, 10, NdsOffUnitCode, NdsHeaderSize - 1, NdsHeaderSize}

NdsFullLen == 2 * NdsBufferSize

NdsFiles ==
    {NdsFile(NdsFullLen, [NdsBase EXCEPT !.unit_code = u]) : u \in Byte}
    \cup {NdsFile(NdsFullLen, [NdsBase EXCEPT !.game_title = Pad(t, 12, pad)]) :
            t \in TextPrefixes, pad \in {0, 32}}
    \cup {NdsFile(NdsFullLen, [NdsBase EXCEPT !.game_title = Pad(Str(<<"A", "B">>) \o t, 12, 0)]) :
            t \in TextPrefixes}
    \cup {NdsFile(NdsFullLen, [NdsBase EXCEPT !.maker_code = Pad(t, 2, 0)]) :
            t \in TextPrefixes}
    \cup {NdsFile(len, [NdsBase EXCEPT !.unit_code = u]) :
            len \in NdsShortLens, u \in {0, 2, 3}}

----------------------------------------------------------------------------
(* The decode                                                               *)

Init ==
    /\ platform \in {"snes", "megadrive", "nds"}
    /\ overflow_checks \in BOOLEAN
    /\ file \in (CASE platform = "snes" -> SnesFiles
                   [] platform = "megadrive" -> MdFiles
                   [] OTHER -> NdsFiles)
    /\ pc = "start"
    /\ offset = 0
    /\ has_smc_header = FALSE
    /\ opened = FALSE
    /\ real_size = 0
    /\ buffer = <<>>
    /\ header = NoHeader
    /\ placement = "none"
    /\ result = Pending

\* snes rom_from_file, the match on metadata.len() % 1024
SnesCheckLength ==
    /\ platform = "snes" /\ pc = "start"
    /\ LET m == length_check(file.len)
       IN IF m.ok
          THEN /\ offset' = m.offset
               /\ has_smc_header' = m.has_smc_header
               /\ pc' = "length_ok"
               /\ UNCHANGED result
          ELSE /\ result' = [kind |-> "panic", message |-> "invalid_file_length"]
               /\ pc' = "done"
               /\ UNCHANGED <<offset, has_smc_header>>
    /\ UNCHANGED <<platform, overflow_checks, file, opened, real_size, buffer, header,
                   placement>>

\* snes rom_from_file: File::open, then find_rom_header(file, len, offset)
SnesFindRomHeader ==
    /\ platform = "snes" /\ pc = "length_ok"
    /\ opened' = TRUE
    /\ real_size' = file.len - offset
    /\ buffer' = ReadInto(file, offset + HEADER_START_LOROM, SnesBufferIdx)
    /\ LET found == find_rom_header(buffer', real_size', overflow_checks)
       IN IF found.kind = "ok"
          THEN /\ header' = found.header
               /\ placement' = found.placement
               /\ pc' = "header_found"
               /\ UNCHANGED result
          ELSE /\ result' = found
               /\ pc' = "done"
               /\ UNCHANGED <<header, placement>>
    /\ UNCHANGED <<platform, overflow_checks, file, offset, has_smc_header>>

\* snes rom_from_file: Ok(rom_from_header(&header, has_smc_header))
SnesRomFromHeader ==
    /\ platform = "snes" /\ pc = "header_found"
    /\ result' = snes_rom_from_header(header, has_smc_header, overflow_checks)
    /\ pc' = "done"
    /\ UNCHANGED <<platform, overflow_checks, file, offset, has_smc_header, opened,
                   real_size, buffer, header, placement>>

\* megadrive rom_from_file: open, seek to 0x100, read into the zeroed buffer,
\* RomHeader::read
MdReadHeader ==
    /\ platform = "megadrive" /\ pc = "start"
    /\ opened' = TRUE
    /\ buffer' = ReadInto(file, MdHeaderStart, 0..(MdBufferSize - 1))
    /\ LET h == md_read_header(buffer')
       IN IF h.ok
          THEN /\ header' = h
               /\ pc' = "header_found"
               /\ UNCHANGED result
          ELSE /\ result' = [kind |-> "error", error |-> "parse"]
               /\ pc' = "done"
               /\ UNCHANGED header
    /\ UNCHANGED <<platform, overflow_checks, file, offset, has_smc_header, real_size,
                   placement>>

\* megadrive rom_from_file: Ok(rom_from_header(&header))
MdRomFromHeader ==
    /\ platform = "megadrive" /\ pc = "header_found"
    /\ result' = md_rom_from_header(header)
    /\ pc' = "done"
    /\ UNCHANGED <<platform, overflow_checks, file, offset, has_smc_header, opened,
                   real_size, buffer, header, placement>>

\* nds rom_from_file: open, read into the zeroed buffer, RomHeader::read
NdsReadHeader ==
    /\ platform = "nds" /\ pc = "start"
    /\ opened' = TRUE
    /\ buffer' = ReadInto(file, 0, 0..(NdsHeaderSize - 1))
    /\ LET h == nds_read_header(buffer')
       IN IF h.ok
          THEN /\ header' = h
               /\ pc' = "header_found"
               /\ UNCHANGED result
          ELSE /\ result' = [kind |-> "error", error |-> "parse"]
               /\ pc' = "done"
               /\ UNCHANGED header
    /\ UNCHANGED <<platform, overflow_checks, file, offset, has_smc_header, real_size,
                   placement>>

\* nds rom_from_file: the Rom built from the header
NdsRomFromHeader ==
    /\ platform = "nds" /\ pc = "header_found"
    /\ result' = nds_rom_from_header(header)
    /\ pc' = "done"
    /\ UNCHANGED <<platform, overflow_checks, file, offset, has_smc_header, opened,
                   real_size, buffer, header, placement>>

Next ==
    \/ SnesCheckLength
    \/ SnesFindRomHeader
    \/ SnesRomFromHeader
    \/ MdReadHeader
    \/ MdRomFromHeader
    \/ NdsReadHeader
    \/ NdsRomFromHeader

Spec == Init /\ [][Next]_vars

----------------------------------------------------------------------------
(* Console A: header location                                               *)

\* the two candidate headers find_rom_header parsed from the buffer
CandidateLo == read_header_at(buffer, 0)

CandidateHi == read_header_at(buffer, HEADER_START_HIROM - HEADER_START_LOROM)

\* find_rom_header has run
SnesLocated == platform = "snes" /\ opened

\* the candidate validates: header_checks_out returns true for it
Validates(c) == header_checks_out(c, real_size, overflow_checks) = "true"

NoValidHeader == result = [kind |-> "error", error |-> "no_valid_header"]

\* 2^e * 1024 = n over the integers (file lengths are below 2^31)
IsExactSize(n, e) == e <= 20 /\ n = Pow2(e) * 1024

SentinelZero(c) == \A i \in 1..FixedValueLen : c.fixed_value[i] = 0

\* C1: header location is an ordered two-candidate trial: a validating
\* candidate 1 is returned as LoRom (also when candidate 2 validates), else a
\* validating candidate 2 is returned as HiRom, and the call fails with the
\* "no valid header" error exactly when neither validates.
C1_OrderedTrial ==
    SnesLocated =>
        /\ Validates(CandidateLo) => (header = CandidateLo /\ placement = "LoRom")
        /\ (~Validates(CandidateLo) /\ Validates(CandidateHi))
              => (header = CandidateHi /\ placement = "HiRom")
        /\ NoValidHeader <=> (~Validates(CandidateLo) /\ ~Validates(CandidateHi))

\* C2: a candidate is accepted by header_checks_out if and only if its 7-byte
\* fixed run is all zero and 2^rom_size * 1024 is the real payload size; an
\* image where no candidate's exponent gives the payload size fails header
\* location.
C2_AcceptedIffBoth ==
    SnesLocated =>
        /\ \A c \in {CandidateLo, CandidateHi} :
              Validates(c) <=> (SentinelZero(c) /\ IsExactSize(real_size, c.rom_size))
        /\ header # NoHeader
              => (SentinelZero(header) /\ IsExactSize(real_size, header.rom_size))
        /\ (~IsExactSize(real_size, CandidateLo.rom_size)
              /\ ~IsExactSize(real_size, CandidateHi.rom_size))
              => (header = NoHeader /\ pc = "done" /\ result.kind \in {"error", "panic"})

\* a located image whose two candidates both have the zero run, with exponents
\* that do not give the payload size, was refused
C2_Witness ==
    /\ SnesLocated /\ NoValidHeader
    /\ SentinelZero(CandidateLo) /\ SentinelZero(CandidateHi)
    /\ real_size = 65536

----------------------------------------------------------------------------
(* Console B: regions and release month                                     *)

\* RomHeader::read has produced a header
MdParsed == platform = "megadrive" /\ header # NoHeader

MdRegions == supported_regions(header.supported_regions)

Range(seq) == {seq[i] : i \in 1..Len(seq)}

AllRegions == {"Japan", "Americas", "Europe"}

\* the region field holds the three letters J, U, E, each once
IsJUEPermutation(field) ==
    /\ Len(field) = 3
    /\ Range(field) = {CharCode("J"), CharCode("U"), CharCode("E")}

\* the decode returned a Rom whose regions are those of the header
MdRomRegions ==
    IF pc = "done" /\ result.kind = "ok" THEN result.rom.supported_regions
    ELSE MdRegions.regions

\* C4: for every permutation of 'J', 'U', 'E' in the region field,
\* supported_regions yields exactly {Japan, Americas, Europe}.
C4_TripletAnyOrder ==
    (MdParsed /\ IsJUEPermutation(header.supported_regions)) =>
        (Range(MdRomRegions) = AllRegions /\ Len(MdRomRegions) = 3)

\* C5: the value space,'E',space is recognized by the special-case check,
\* and only that value is, and the special case returns exactly {Europe}.
C5_SpaceESpaceSpecial ==
    MdParsed =>
        /\ MdRegions.branch = "special" <=> header.supported_regions = <<32, 69, 32>>
        /\ MdRegions.branch = "special" => MdRegions.regions = <<"Europe">>

\* C5 as amended: the value 'E',space,space is the one recognized by the
\* special-case check, before the hex-digit test (its first character is a hex
\* digit) and the legacy fallback, and the special case returns exactly
\* {Europe}; space,'E',space gives {Europe} through the legacy fallback.
C5_ESpaceSpaceSpecial ==
    MdParsed =>
        /\ MdRegions.branch = "special" <=> header.supported_regions = <<69, 32, 32>>
        /\ MdRegions.branch = "special" => MdRomRegions = <<"Europe">>
        /\ header.supported_regions = <<32, 69, 32>>
              => (MdRegions.branch = "legacy" /\ MdRomRegions = <<"Europe">>)

\* the decode of a header whose region field is 'E',space,space returned
\* Europe alone
C5_Witness ==
    /\ MdParsed /\ pc = "done" /\ result.kind = "ok"
    /\ header.supported_regions = <<69, 32, 32>>
    /\ result.rom.supported_regions = <<"Europe">>

\* the numeric value of a hexadecimal digit character, -1 for other characters
HexValue(c, lower) ==
    IF c \in 48..57 THEN c - 48
    ELSE IF c \in 65..70 THEN c - 55
    ELSE IF lower /\ c \in 97..102 THEN c - 87
    ELSE -1

\* the region set a bitmask stands for: bit 0 Japan, bit 2 Americas, bit 3
\* Europe, bit 1 nothing
MaskRegions(v) ==
    {r \in AllRegions :
        \/ r = "Japan" /\ v % 2 = 1
        \/ r = "Americas" /\ (v \div 4) % 2 = 1
        \/ r = "Europe" /\ (v \div 8) % 2 = 1}

NoDuplicates(seq) == Cardinality(Range(seq)) = Len(seq)

\* C6: for every region field other than space,'E',space whose first character
\* is a hexadecimal digit (a letter in either case), supported_regions returns
\* exactly the set of that digit's value as a bitmask.
C6_HexAnyCase ==
    (MdParsed /\ header.supported_regions # <<32, 69, 32>>
       /\ HexValue(header.supported_regions[1], TRUE) >= 0) =>
        /\ Range(MdRomRegions) = MaskRegions(HexValue(header.supported_regions[1], TRUE))
        /\ NoDuplicates(MdRomRegions)

\* C6 as amended: for every region field other than 'E',space,space whose first
\* character is one of 0-9 or an upper-case A-F, supported_regions returns
\* exactly the set of that digit's value as a bitmask, whatever the other two
\* characters are.
C6_HexUpperCase ==
    (MdParsed /\ header.supported_regions # <<69, 32, 32>>
       /\ HexValue(header.supported_regions[1], FALSE) >= 0) =>
        /\ MdRegions.branch = "hex"
        /\ Range(MdRomRegions) = MaskRegions(HexValue(header.supported_regions[1], FALSE))
        /\ NoDuplicates(MdRomRegions)

\* the decode of a header whose region field is '4', 'J', 'E' returned the
\* Americas alone
C6_Witness ==
    /\ MdParsed /\ pc = "done" /\ result.kind = "ok"
    /\ header.supported_regions = <<52, 74, 69>>
    /\ result.rom.supported_regions = <<"Americas">>

\* the month accessor's value in the decoded Rom, or as computed on the header
MdMonth ==
    IF pc = "done" /\ result.kind = "ok" THEN result.rom.release_date.month
    ELSE release_month(header.release_month)

IsMonthAbbreviation(text) == \E i \in 1..Len(MONTHS) : MONTHS[i] = text

\* C7: a month field equal to one of the twelve abbreviations gives a month
\* number in 1..12, any other field gives 0.
C7_MonthNumber ==
    MdParsed =>
        /\ IsMonthAbbreviation(header.release_month) => MdMonth \in 1..12
        /\ ~IsMonthAbbreviation(header.release_month) => MdMonth = 0

----------------------------------------------------------------------------
(* Truncated images, text fields, enumeration labels                        *)

\* fewer bytes are in the file at the header position than the layout needs
Truncated ==
    \/ SnesLocated /\ real_size < HEADER_START_LOROM + HEADER_SIZE
    \/ platform = "megadrive" /\ file.len < MdHeaderStart + MdHeaderSize
    \/ platform = "nds" /\ file.len < NdsHeaderSize

\* C8: when fewer bytes are available at the header position than the layout
\* requires, the decode returns a failure: it neither aborts nor returns a
\* record built from zero-filled bytes.
C8_TruncatedFails ==
    (pc = "done" /\ Truncated) => result.kind = "error"

\* C9: text normalization never fails the decode: whatever bytes the text
\* fields hold, the header read succeeds.
C9_TextNeverFails ==
    (pc # "start" /\ opened) =>
        /\ result # [kind |-> "error", error |-> "parse"]
        /\ result # [kind |-> "error", error |-> "read"]

\* the value of a sequence of lower-case hexadecimal digit pieces, -1 when a
\* piece is no digit
RECURSIVE HexPiecesValue(_)
HexPiecesValue(pieces) ==
    IF pieces = <<>> THEN 0
    ELSE LET last == pieces[Len(pieces)]
             init == HexPiecesValue(SubSeq(pieces, 1, Len(pieces) - 1))
         IN IF init < 0 \/ ~\E i \in 1..16 : HexDigitChars[i] = last THEN -1
            ELSE 16 * init + (CHOOSE i \in 1..16 : HexDigitChars[i] = last) - 1

\* the label is the table's label for a code of the table, and otherwise is
\* marked unknown and carries the code
IsLabelOf(label, code, map) ==
    IF code \in DOMAIN map THEN label = <<map[code]>>
    ELSE /\ Len(label) >= 3
         /\ label[1] = "Unknown "
         /\ label[2] = "0x"
         /\ HexPiecesValue(SubSeq(label, 3, Len(label))) = code

SnesDecoded == platform = "snes" /\ pc = "done" /\ result.kind = "ok"

MdDecoded == platform = "megadrive" /\ pc = "done" /\ result.kind = "ok"

KnownSoftwareTypes ==
    {Str(<<"G", "M">>), Str(<<"A", "I">>), Str(<<"O", "S">>), Str(<<"B", "R">>)}

\* C10: for every map mode, cartridge type and destination code byte the
\* lookup returns the table's label, or for a code absent from the table a
\* label marked unknown that contains the code; an unrecognized console B
\* software type gives a label marked unknown that contains the field's text.
C10_UnknownCodesLabelled ==
    /\ SnesDecoded =>
          /\ IsLabelOf(result.rom.map_mode, header.map_mode, MAP_MODES)
          /\ IsLabelOf(result.rom.cartridge_type, header.cartridge_type, CARTRIDGE_TYPES)
          /\ IsLabelOf(result.rom.target_market, header.destination_code, DESTINATION_CODES)
    /\ MdDecoded =>
          /\ result.rom.software_type.known <=> header.software_type \in KnownSoftwareTypes
          /\ ~result.rom.software_type.known
                => /\ result.rom.software_type.text = "Unknown"
                   /\ result.rom.software_type.raw = header.software_type

\* a map mode byte absent from the table, 0x2a, was decoded to an unknown label
C10_Witness ==
    /\ SnesDecoded /\ header.map_mode = 42
    /\ result.rom.map_mode = <<"Unknown ", "0x", "2", "a">>

\* the console A file of exactly 1024 bytes, which holds neither candidate
\* offset, was decoded to a Rom
C8_Accepted1024 ==
    /\ SnesDecoded /\ file.len = 1024 /\ Truncated
    /\ header.rom_size = 0 /\ placement = "LoRom"

----------------------------------------------------------------------------
(* Console A sizes, console C devices                                       *)

\* bytes = kilobytes * 1024 = kilobits * 128 over the integers, for values
\* kept as [zero, log2]
SizesConsistent(sz) ==
    IF sz.kilobytes.zero THEN sz.bytes.zero /\ sz.kilobits.zero
    ELSE /\ ~sz.bytes.zero /\ sz.bytes.log2 = sz.kilobytes.log2 + 10
         /\ ~sz.kilobits.zero /\ sz.kilobits.log2 + 7 = sz.bytes.log2

\* C11: for every console A image that passes header location, the rom_size
\* and sram_size of the decoded Rom satisfy
\* bytes = kilobytes * 1024 = kilobits * 128.
C11_SizesConsistent ==
    SnesDecoded =>
        /\ SizesConsistent(result.rom.rom_size)
        /\ SizesConsistent(result.rom.sram_size)

NdsDecoded == platform = "nds" /\ pc = "done" /\ result.kind = "ok"

\* C12: unit_code 3 yields exactly [DSi], unit_code 2 exactly [DS, DSi], and
\* every other value of 0..255 exactly [DS].
C12_DeviceRule ==
    NdsDecoded =>
        /\ header.unit_code = 3 => result.rom.supported_devices = <<"DSi">>
        /\ header.unit_code = 2 => result.rom.supported_devices = <<"DS", "DSi">>
        /\ header.unit_code \notin {2, 3} => result.rom.supported_devices = <<"DS">>

\* an image with unit_code 2 was decoded to both device classes
C12_Witness ==
    /\ NdsDecoded /\ header.unit_code = 2
    /\ result.rom.supported_devices = <<"DS", "DSi">>

----------------------------------------------------------------------------
(* Console C text trimming, console B totality                              *)

\* the text without its trailing run of whitespace characters and zero bytes
RECURSIVE StripTrailingPadding(_)
StripTrailingPadding(s) ==
    IF s = <<>> THEN <<>>
    ELSE IF IsWhitespace(s[Len(s)]) \/ s[Len(s)] = 0
         THEN StripTrailingPadding(SubSeq(s, 1, Len(s) - 1))
    ELSE s

NdsParsed == platform = "nds" /\ header # NoHeader

\* the characters of a console C text field as they are in the buffer
NdsFieldText(off, n) == from_utf8(Slice(buffer, off, n)).text

\* C13: console C text trimming removes only the trailing padding: each text
\* field of the header is its input without the trailing run of whitespace and
\* zero bytes, so it never ends in whitespace or a zero byte, and leading and
\* interior characters are kept.
C13_TrailingOnly ==
    NdsParsed =>
        /\ header.game_title = StripTrailingPadding(NdsFieldText(NdsOffGameTitle, 12))
        /\ header.game_code = StripTrailingPadding(NdsFieldText(NdsOffGameCode, 4))
        /\ header.maker_code = StripTrailingPadding(NdsFieldText(NdsOffMakerCode, 2))

\* C14: console B decode is total on parsed headers: for every RomHeader the
\* reader produced, rom_from_header returns a Rom without aborting.
C14_MdDecodeTotal ==
    (platform = "megadrive" /\ header # NoHeader /\ pc = "done") => result.kind = "ok"

----------------------------------------------------------------------------
(* Console A: size arithmetic                                               *)

\* find_rom_header evaluated header_checks_out on candidate 2
HiEvaluated == header_checks_out(CandidateLo, real_size, overflow_checks) = "false"

\* C15: for every candidate with zero sentinel bytes header_checks_out
\* computes 2^rom_size * 1024 without overflow or abort and returns false when
\* that value is not the payload size, and rom_size() and sram_size() compute
\* their sizes without overflow for every header that passed validation.
C15_NoOverflow ==
    SnesLocated =>
        /\ SentinelZero(CandidateLo) => ~CalculatedSizeOverflows(CandidateLo.rom_size)
        /\ (HiEvaluated /\ SentinelZero(CandidateHi))
              => ~CalculatedSizeOverflows(CandidateHi.rom_size)
        /\ result # [kind |-> "panic", message |-> "overflow"]
        /\ \A c \in {CandidateLo, CandidateHi} :
              (SentinelZero(c) /\ ~IsExactSize(real_size, c.rom_size)) => ~Validates(c)
        /\ header # NoHeader
              => (~StorageOverflows(header.rom_size) /\ ~StorageOverflows(header.sram_size))

\* C16: real_size = size - offset never underflows: for every file length that
\* passes the modulo-1024 check, offset is 0 or 512 and at most the length
\* (512 only when the length is 512 modulo 1024), and real_size is a multiple
\* of 1024.
C16_RealSizeNoUnderflow ==
    (platform = "snes" /\ pc # "start" /\ file.len % 1024 \in {0, 512}) =>
        /\ offset \in {0, 512}
        /\ offset <= file.len
        /\ offset = 512 => (file.len % 1024 = 512 /\ file.len >= 512)
        /\ opened => /\ real_size = file.len - offset
                     /\ real_size >= 0
                     /\ real_size % 1024 = 0

\* a file that is the 512-byte prefix alone was located with real_size 0
C16_Witness ==
    /\ SnesLocated /\ file.len = 512 /\ offset = 512 /\ real_size = 0

====
